---- MODULE Spec2Model ----
(***************************************************************************)
(* Model of the undirected-graph library in src/lib: the two adjacency     *)
(* representations (representations.py) and the Graph facade with its      *)
(* degree cache, searches, distance, diameter and components (graph.py).   *)
(* Two Graph objects are kept side by side, as in main.py: graph_adj_list  *)
(* (AdjacencyList) and graph_adj_matrix (AdjacencyMatrix), both fed the    *)
(* same add_edge calls.                                                    *)
(***************************************************************************)
EXTENDS Integers, Sequences, FiniteSets, TLC

\* Largest vertex count a graph is constructed with.
MaxN == 4

\* Largest number of distinct edges the callers insert.
MaxEdges == 4

VARIABLES
    num_vertices,       \* Graph._num_vertices (the same for both graphs)
    adj,                \* AdjacencyList._adj : vertex -> set of neighbours
    list_edge_count,    \* AdjacencyList._edge_count
    matrix,             \* AdjacencyMatrix._matrix : 0-based row -> column -> uint8
    matrix_edge_count,  \* AdjacencyMatrix._edge_count
    list_cache,         \* graph_adj_list._all_degrees_cache
    matrix_cache,       \* graph_adj_matrix._all_degrees_cache
    inserted,           \* history: unordered pairs whose add_edge was accepted
    last                \* the call just made and what it returned or raised;
                        \* NoCall once the caller has taken the result

vars == <<num_vertices, adj, list_edge_count, matrix, matrix_edge_count,
          list_cache, matrix_cache, inserted, last>>

graph == <<num_vertices, adj, list_edge_count, matrix, matrix_edge_count,
           list_cache, matrix_cache, inserted>>

\* Python's None where a vertex is expected (parents map); vertices stored
\* there are always in 1..N, so 0 is free.
None == 0

\* Python's None for _all_degrees_cache; a computed cache has N > 0 entries.
NoCache == << >>

\* The two Graph objects of main.py.
Kinds == {"list", "matrix"}

\* Vertex arguments tried by the callers: the valid ones and one on each side.
VertexArgs == 0 .. (MaxN + 1)

-----------------------------------------------------------------------------
(* Helpers on sequences and sets *)

RECURSIVE Perms(_)
\* All the orders in which the elements of a finite set can be listed.
Perms(S) ==
    IF S = {} THEN { << >> }
    ELSE UNION { { <<x>> \o p : p \in Perms(S \ {x}) } : x \in S }

RECURSIVE SumSeq(_)
SumSeq(s) == IF s = << >> THEN 0 ELSE Head(s) + SumSeq(Tail(s))

RECURSIVE InsertAsc(_, _)
\* Insert x into an ascending sequence, after the elements equal to it.
InsertAsc(x, s) ==
    IF s = << >> THEN <<x>>
    ELSE IF x < Head(s) THEN <<x>> \o s
    ELSE <<Head(s)>> \o InsertAsc(x, Tail(s))

RECURSIVE sorted(_)
\* sorted(list): ascending.
sorted(s) ==
    IF s = << >> THEN << >>
    ELSE InsertAsc(s[Len(s)], sorted(SubSeq(s, 1, Len(s) - 1)))

Reverse(s) == [i \in 1 .. Len(s) |-> s[Len(s) + 1 - i]]

\* sorted(list, reverse=True): descending.
sorted_reverse(s) == Reverse(sorted(s))

SeqMin(s) == CHOOSE x \in { s[i] : i \in 1 .. Len(s) } :
                 \A j \in 1 .. Len(s) : x <= s[j]

SeqMax(s) == CHOOSE x \in { s[i] : i \in 1 .. Len(s) } :
                 \A j \in 1 .. Len(s) : x >= s[j]

-----------------------------------------------------------------------------
(* GraphUtils *)

\* GraphUtils.is_vertex_within_bounds.
is_vertex_within_bounds(v, n) == 1 <= v /\ v <= n

add_edge_vertices_ok_first_only(u, v, n) == is_vertex_within_bounds(u, n)

\* The bounds check of Graph.add_edge: both endpoints.
add_edge_vertices_ok(u, v, n) ==
    is_vertex_within_bounds(u, n) /\ is_vertex_within_bounds(v, n)

-----------------------------------------------------------------------------
(* AdjacencyList *)

AdjacencyList_init(n) == [i \in 1 .. n |-> {}]

list_add_edge_one_sided(a, cnt, u, v) ==
    IF u \notin DOMAIN a THEN [adj |-> a, cnt |-> cnt, err |-> "KeyError"]
    ELSE IF v \in a[u] THEN [adj |-> a, cnt |-> cnt, err |-> "none"]
    ELSE [adj |-> [a EXCEPT ![u] = @ \cup {v}], cnt |-> cnt + 1, err |-> "none"]

list_add_edge_count_always(a, cnt, u, v) ==
    IF u \notin DOMAIN a \/ v \notin DOMAIN a
    THEN [adj |-> a, cnt |-> cnt, err |-> "KeyError"]
    ELSE [adj |-> [[a EXCEPT ![u] = @ \cup {v}] EXCEPT ![v] = @ \cup {u}],
          cnt |-> cnt + 1, err |-> "none"]

\* AdjacencyList.add_edge on the dict a and counter cnt. A key that is not in
\* the dict raises KeyError at the subscript that uses it; what was written
\* before stays written.
list_add_edge(a, cnt, u, v) ==
    IF u \notin DOMAIN a THEN [adj |-> a, cnt |-> cnt, err |-> "KeyError"]
    ELSE IF v \in a[u] THEN [adj |-> a, cnt |-> cnt, err |-> "none"]
    ELSE LET a1 == [a EXCEPT ![u] = @ \cup {v}] IN
         IF v \notin DOMAIN a1
         THEN [adj |-> a1, cnt |-> cnt, err |-> "KeyError"]
         ELSE [adj |-> [a1 EXCEPT ![v] = @ \cup {u}], cnt |-> cnt + 1,
               err |-> "none"]

\* AdjacencyList.get_neighbors: list(set) lists the set in an order the
\* language leaves open, so every order is a possible return value.
list_get_neighbors(a, v) == Perms(a[v])

-----------------------------------------------------------------------------
(* AdjacencyMatrix *)

AdjacencyMatrix_init(n) == [i \in 0 .. n - 1 |-> [j \in 0 .. n - 1 |-> 0]]

\* NumPy index handling along an axis of length n: a negative index counts
\* from the end, anything outside -n .. n-1 raises IndexError.
IndexOk(i, n) == -n <= i /\ i < n
Wrap(i, n) == IF i < 0 THEN i + n ELSE i

matrix_add_edge_one_sided(m, cnt, u, v) ==
    LET n == Cardinality(DOMAIN m)
        u_idx == u - 1
        v_idx == v - 1
    IN  IF ~(IndexOk(u_idx, n) /\ IndexOk(v_idx, n))
        THEN [matrix |-> m, cnt |-> cnt, err |-> "IndexError"]
        ELSE IF m[Wrap(u_idx, n)][Wrap(v_idx, n)] = 0
        THEN [matrix |-> [m EXCEPT ![Wrap(u_idx, n)][Wrap(v_idx, n)] = 1],
              cnt |-> cnt + 1, err |-> "none"]
        ELSE [matrix |-> m, cnt |-> cnt, err |-> "none"]

\* AdjacencyMatrix.add_edge.
matrix_add_edge(m, cnt, u, v) ==
    LET n == Cardinality(DOMAIN m)
        u_idx == u - 1
        v_idx == v - 1
    IN  IF ~(IndexOk(u_idx, n) /\ IndexOk(v_idx, n))
        THEN [matrix |-> m, cnt |-> cnt, err |-> "IndexError"]
        ELSE IF m[Wrap(u_idx, n)][Wrap(v_idx, n)] = 0
        THEN [matrix |->
                 [[m EXCEPT ![Wrap(u_idx, n)][Wrap(v_idx, n)] = 1]
                     EXCEPT ![Wrap(v_idx, n)][Wrap(u_idx, n)] = 1],
              cnt |-> cnt + 1, err |-> "none"]
        ELSE [matrix |-> m, cnt |-> cnt, err |-> "none"]

RECURSIVE nonzero(_, _)
\* np.nonzero(row)[0] from column j on: the indices of the non-zero entries,
\* ascending.
nonzero(row, j) ==
    IF j \notin DOMAIN row THEN << >>
    ELSE (IF row[j] # 0 THEN <<j>> ELSE << >>) \o nonzero(row, j + 1)

\* AdjacencyMatrix.get_neighbors: one possible return value.
matrix_get_neighbors(m, v) ==
    LET v_idx == v - 1
        neighbors_indices == nonzero(m[v_idx], 0)
    IN  { [i \in 1 .. Len(neighbors_indices) |-> neighbors_indices[i] + 1] }

-----------------------------------------------------------------------------
(* Graph facade *)

\* self._representation.get_neighbors(v) of graph g: the set of lists the
\* call can return.
rep_get_neighbors(g, v) ==
    IF g = "list" THEN list_get_neighbors(adj, v)
    ELSE matrix_get_neighbors(matrix, v)

\* Graph.edge_count of graph g.
edge_count(g) == IF g = "list" THEN list_edge_count ELSE matrix_edge_count

\* Graph._all_degrees_cache of graph g.
cache(g) == IF g = "list" THEN list_cache ELSE matrix_cache

_invalidate_degree_cache_keep(c) == c

\* Graph._invalidate_degree_cache: the new value of the cache.
_invalidate_degree_cache(c) == NoCache

\* Graph.get_neighbors: the lists it can return, or the error it raises.
get_neighbors(g, v) ==
    IF ~is_vertex_within_bounds(v, num_vertices)
    THEN [err |-> "ValueError", lists |-> {}]
    ELSE [err |-> "none", lists |-> rep_get_neighbors(g, v)]

\* Graph._calculate_all_degrees: the list of len(get_neighbors(i)), taken
\* from the cache when there is one.
_calculate_all_degrees(g) ==
    IF cache(g) = NoCache
    THEN [i \in 1 .. num_vertices |->
             Len(CHOOSE l \in get_neighbors(g, i).lists : TRUE)]
    ELSE cache(g)

\* The dict returned by Graph.get_degree_metrics; the two floats are kept as
\* numerator and denominator.
degree_metrics(degrees) ==
    LET sorted_degrees == sorted(degrees)
        n == Len(sorted_degrees)
        median == IF n > 0
                  THEN IF n % 2 = 1
                       THEN <<sorted_degrees[(n \div 2) + 1], 1>>
                       ELSE <<sorted_degrees[n \div 2]
                                + sorted_degrees[(n \div 2) + 1], 2>>
                  ELSE <<0, 1>>
    IN  [min_degree |-> IF n > 0 THEN SeqMin(degrees) ELSE 0,
         max_degree |-> IF n > 0 THEN SeqMax(degrees) ELSE 0,
         avg_degree |-> IF n > 0 THEN <<SumSeq(degrees), n>> ELSE <<0, 1>>,
         median_degree |-> median]

-----------------------------------------------------------------------------
(* Breadth-first search *)

RECURSIVE bfs_for_no_visited_check(_, _, _)
bfs_for_no_visited_check(nbrs, u, st) ==
    IF nbrs = << >> THEN st
    ELSE LET v == Head(nbrs) IN
         bfs_for_no_visited_check(Tail(nbrs), u,
             [queue |-> Append(st.queue, v),
              parents |-> [st.parents EXCEPT ![v] = u],
              levels |-> [st.levels EXCEPT ![v] = st.levels[u] + 1]])

RECURSIVE bfs_for(_, _, _)
\* The body of "for v in self.get_neighbors(u)" of breadth_first_search, over
\* the list nbrs.
bfs_for(nbrs, u, st) ==
    IF nbrs = << >> THEN st
    ELSE LET v == Head(nbrs) IN
         bfs_for(Tail(nbrs), u,
             IF st.levels[v] = -1
             THEN [queue |-> Append(st.queue, v),
                   parents |-> [st.parents EXCEPT ![v] = u],
                   levels |-> [st.levels EXCEPT ![v] = st.levels[u] + 1]]
             ELSE st)

\* One iteration of "while queue": popleft, then the for loop over each list
\* get_neighbors can return.
bfs_iteration(g, st) ==
    LET u == Head(st.queue)
        popped == [st EXCEPT !.queue = Tail(st.queue)]
    IN  { bfs_for(l, u, popped) : l \in get_neighbors(g, u).lists }

RECURSIVE bfs_while(_, _, _)
\* The while loop of breadth_first_search from each of the states in S; fuel
\* iterations are followed, a state whose queue is still not empty after them
\* is a run that has not returned.
bfs_while(g, S, fuel) ==
    LET running == { st \in S : st.queue # << >> } IN
    IF running = {} \/ fuel = 0 THEN S
    ELSE bfs_while(g,
                   (S \ running) \cup UNION { bfs_iteration(g, st) : st \in running },
                   fuel - 1)

\* Graph.breadth_first_search(start_vertex) on graph g: every outcome the
\* call can have.
breadth_first_search(g, start_vertex) ==
    IF ~is_vertex_within_bounds(start_vertex, num_vertices)
    THEN { [err |-> "ValueError", parents |-> << >>, levels |-> << >>,
            done |-> TRUE] }
    ELSE LET parents == [v \in 1 .. num_vertices |-> None]
             levels == [v \in 1 .. num_vertices |-> -1]
             st0 == [queue |-> <<start_vertex>>, parents |-> parents,
                     levels |-> [levels EXCEPT ![start_vertex] = 0]]
         IN  { [err |-> "none", parents |-> st.parents, levels |-> st.levels,
                done |-> (st.queue = << >>)] :
               st \in bfs_while(g, {st0}, num_vertices + 1) }

-----------------------------------------------------------------------------
(* Depth-first search *)

RECURSIVE dfs_for(_, _, _, _)
\* The body of "for v in sorted(..., reverse=True)" of depth_first_search.
dfs_for(nbrs, u, level, st) ==
    IF nbrs = << >> THEN st
    ELSE LET v == Head(nbrs) IN
         dfs_for(Tail(nbrs), u, level,
             IF v \notin st.visited
             THEN [stack |-> Append(st.stack, <<v, level + 1>>),
                   visited |-> st.visited \cup {v},
                   parents |-> [st.parents EXCEPT ![v] = u],
                   levels |-> [st.levels EXCEPT ![v] = level + 1]]
             ELSE st)

dfs_iteration_unsorted(g, st) ==
    LET top == st.stack[Len(st.stack)]
        popped == [st EXCEPT !.stack = SubSeq(st.stack, 1, Len(st.stack) - 1)]
    IN  { dfs_for(l, top[1], top[2], popped) :
          l \in get_neighbors(g, top[1]).lists }

\* One iteration of "while stack": pop, then the for loop over the sorted
\* neighbours, for each list get_neighbors can return.
dfs_iteration(g, st) ==
    LET top == st.stack[Len(st.stack)]
        popped == [st EXCEPT !.stack = SubSeq(st.stack, 1, Len(st.stack) - 1)]
    IN  { dfs_for(sorted_reverse(l), top[1], top[2], popped) :
          l \in get_neighbors(g, top[1]).lists }

RECURSIVE dfs_while(_, _, _)
dfs_while(g, S, fuel) ==
    LET running == { st \in S : st.stack # << >> } IN
    IF running = {} \/ fuel = 0 THEN S
    ELSE dfs_while(g,
                   (S \ running) \cup UNION { dfs_iteration(g, st) : st \in running },
                   fuel - 1)

\* Graph.depth_first_search(start_vertex) on graph g: every outcome.
depth_first_search(g, start_vertex) ==
    IF ~(1 <= start_vertex /\ start_vertex <= num_vertices)
    THEN { [err |-> "ValueError", parents |-> << >>, levels |-> << >>,
            done |-> TRUE] }
    ELSE LET parents == [v \in 1 .. num_vertices |-> None]
             levels == [v \in 1 .. num_vertices |-> -1]
             st0 == [stack |-> << <<start_vertex, 0>> >>,
                     visited |-> {start_vertex},
                     parents |-> [parents EXCEPT ![start_vertex] = None],
                     levels |-> [levels EXCEPT ![start_vertex] = 0]]
         IN  { [err |-> "none", parents |-> st.parents, levels |-> st.levels,
                done |-> (st.stack = << >>)] :
               st \in dfs_while(g, {st0}, num_vertices + 1) }

-----------------------------------------------------------------------------
(* Distance and diameter *)

\* Graph.get_distance(u, v) on graph g: levels[v] of a search from u; a
\* key that levels does not hold raises KeyError.
get_distance(g, u, v) ==
    { IF r.err # "none" THEN [err |-> r.err, value |-> 0, done |-> TRUE]
      ELSE IF ~r.done THEN [err |-> "none", value |-> 0, done |-> FALSE]
      ELSE IF v \notin DOMAIN r.levels
      THEN [err |-> "KeyError", value |-> 0, done |-> TRUE]
      ELSE [err |-> "none", value |-> r.levels[v], done |-> TRUE] :
      r \in breadth_first_search(g, u) }

diameter_update_last_search(max_dist, levels) == SeqMax(levels)

\* The body of the for loop of get_diameter after the search from i.
diameter_update(max_dist, levels) ==
    LET current_max == SeqMax(levels) IN
    IF current_max > max_dist THEN current_max ELSE max_dist

RECURSIVE diameter_for(_, _, _)
\* "for i in range(1, vertex_count + 1)" of get_diameter from vertex i on,
\* with the values max_dist can have in M.
diameter_for(g, i, M) ==
    IF i > num_vertices THEN M
    ELSE diameter_for(g, i + 1,
             { IF m.done /\ r.done
               THEN [value |-> diameter_update(m.value, r.levels), done |-> TRUE]
               ELSE [value |-> 0, done |-> FALSE] :
               m \in M, r \in breadth_first_search(g, i) })

\* Graph.get_diameter() on graph g: every outcome.
get_diameter(g) == diameter_for(g, 1, { [value |-> 0, done |-> TRUE] })

-----------------------------------------------------------------------------
(* Connected components *)

RECURSIVE cc_for(_, _)
\* "for neighbor in self.get_neighbors(u)" of get_connected_components.
cc_for(nbrs, st) ==
    IF nbrs = << >> THEN st
    ELSE LET neighbor == Head(nbrs) IN
         cc_for(Tail(nbrs),
             IF neighbor \notin st.visited
             THEN [st EXCEPT !.visited = @ \cup {neighbor},
                             !.component_nodes = @ \cup {neighbor},
                             !.queue = Append(@, neighbor)]
             ELSE st)

cc_iteration(g, st) ==
    LET u == Head(st.queue)
        popped == [st EXCEPT !.queue = Tail(st.queue)]
    IN  { cc_for(l, popped) : l \in get_neighbors(g, u).lists }

RECURSIVE cc_while(_, _, _)
cc_while(g, S, fuel) ==
    LET running == { st \in S : st.queue # << >> } IN
    IF running = {} \/ fuel = 0 THEN S
    ELSE cc_while(g,
                  (S \ running) \cup UNION { cc_iteration(g, st) : st \in running },
                  fuel - 1)

RECURSIVE InsertBySizeDesc(_, _)
\* Insert component x into a list that is non-increasing in size, after the
\* components that are at least as large.
InsertBySizeDesc(x, s) ==
    IF s = << >> THEN <<x>>
    ELSE IF x.size > Head(s).size THEN <<x>> \o s
    ELSE <<Head(s)>> \o InsertBySizeDesc(x, Tail(s))

RECURSIVE sorted_by_size_ascending(_)
sorted_by_size_ascending(s) ==
    IF s = << >> THEN << >>
    ELSE LET rest == sorted_by_size_ascending(SubSeq(s, 1, Len(s) - 1))
             x == s[Len(s)]
             k == Cardinality({ i \in 1 .. Len(rest) : rest[i].size <= x.size })
         IN  SubSeq(rest, 1, k) \o <<x>> \o SubSeq(rest, k + 1, Len(rest))

RECURSIVE sorted_by_size_reverse(_)
\* sorted(components, key=size, reverse=True): non-increasing in size, equal
\* sizes in their original order (the sort is stable, also when reversed).
sorted_by_size_reverse(s) ==
    IF s = << >> THEN << >>
    ELSE InsertBySizeDesc(s[Len(s)],
                          sorted_by_size_reverse(SubSeq(s, 1, Len(s) - 1)))

RECURSIVE cc_outer(_, _, _)
\* "for v in range(1, vertex_count + 1)" of get_connected_components from v
\* on; S holds the states (visited, components, done) the loop can be in.
cc_outer(g, v, S) ==
    IF v > num_vertices THEN S
    ELSE cc_outer(g, v + 1,
           UNION {
             IF ~o.done \/ v \in o.visited THEN {o}
             ELSE UNION {
                    { [visited |-> st.visited,
                       components |-> Append(o.components,
                           [size |-> Cardinality(st.component_nodes),
                            vertices |-> sorted(l)]),
                       done |-> (st.queue = << >>)] :
                      l \in Perms(st.component_nodes) } :
                    st \in cc_while(g,
                              { [queue |-> <<v>>,
                                 visited |-> o.visited \cup {v},
                                 component_nodes |-> {v}] },
                              num_vertices + 1) } :
             o \in S })

\* Graph.get_connected_components() on graph g: every outcome.
get_connected_components(g) ==
    { [list |-> sorted_by_size_reverse(o.components), done |-> o.done] :
      o \in cc_outer(g, 1, { [visited |-> {}, components |-> << >>,
                              done |-> TRUE] }) }

-----------------------------------------------------------------------------
(* The record of the last call *)

\* No call is in progress: the caller is free to make the next one.
NoCall ==
    [op |-> "none", g |-> "both", u |-> 0, v |-> 0, err |-> "none",
     err_matrix |-> "none", parents |-> << >>, levels |-> << >>,
     value |-> 0, list |-> << >>, done |-> TRUE]

-----------------------------------------------------------------------------
(* Operations *)

\* Graph.__init__ for both graphs of main.py, with a positive vertex count.
Init ==
    /\ num_vertices \in 1 .. MaxN
    /\ adj = AdjacencyList_init(num_vertices)
    /\ list_edge_count = 0
    /\ matrix = AdjacencyMatrix_init(num_vertices)
    /\ matrix_edge_count = 0
    /\ list_cache = NoCache
    /\ matrix_cache = NoCache
    /\ inserted = {}
    /\ last = NoCall

\* Graph.add_edge(u, v), called on graph_adj_list and on graph_adj_matrix.
add_edge(u, v) ==
    LET ok == add_edge_vertices_ok(u, v, num_vertices)
        rl == list_add_edge(adj, list_edge_count, u, v)
        rm == matrix_add_edge(matrix, matrix_edge_count, u, v)
    IN  /\ last = NoCall
        /\ ~ok \/ Cardinality(inserted \cup {{u, v}}) <= MaxEdges
        /\ IF ~ok
           THEN /\ last' = [NoCall EXCEPT !.op = "add_edge", !.u = u, !.v = v,
                               !.err = "ValueError",
                               !.err_matrix = "ValueError"]
                /\ UNCHANGED graph
           ELSE /\ adj' = rl.adj
                /\ list_edge_count' = rl.cnt
                /\ list_cache' = IF rl.err = "none"
                                 THEN _invalidate_degree_cache(list_cache)
                                 ELSE list_cache
                /\ matrix' = rm.matrix
                /\ matrix_edge_count' = rm.cnt
                /\ matrix_cache' = IF rm.err = "none"
                                   THEN _invalidate_degree_cache(matrix_cache)
                                   ELSE matrix_cache
                /\ inserted' = IF rl.err = "none" /\ rm.err = "none"
                               THEN inserted \cup {{u, v}} ELSE inserted
                /\ last' = [NoCall EXCEPT !.op = "add_edge", !.u = u, !.v = v,
                               !.err = rl.err, !.err_matrix = rm.err]
                /\ UNCHANGED num_vertices

\* Graph.get_neighbors(v) on graph g.
get_neighbors_call(g, v) ==
    LET r == get_neighbors(g, v) IN
    /\ last = NoCall
    /\ IF r.err # "none"
       THEN last' = [NoCall EXCEPT !.op = "get_neighbors", !.g = g, !.v = v,
                        !.err = r.err]
       ELSE \E l \in r.lists :
                last' = [NoCall EXCEPT !.op = "get_neighbors", !.g = g,
                            !.v = v, !.list = l]
    /\ UNCHANGED graph

\* Graph.get_degree_metrics() on graph g.
get_degree_metrics(g) ==
    LET degrees == _calculate_all_degrees(g) IN
    /\ last = NoCall
    /\ IF g = "list"
       THEN list_cache' = degrees /\ UNCHANGED matrix_cache
       ELSE matrix_cache' = degrees /\ UNCHANGED list_cache
    /\ last' = [NoCall EXCEPT !.op = "get_degree_metrics", !.g = g,
                   !.list = degrees, !.value = degree_metrics(degrees)]
    /\ UNCHANGED <<num_vertices, adj, list_edge_count, matrix,
                   matrix_edge_count, inserted>>

\* Graph.breadth_first_search(s) on graph g.
breadth_first_search_call(g, s) ==
    /\ last = NoCall
    /\ \E r \in breadth_first_search(g, s) :
           last' = [NoCall EXCEPT !.op = "breadth_first_search", !.g = g,
                       !.u = s, !.err = r.err, !.parents = r.parents,
                       !.levels = r.levels, !.done = r.done]
    /\ UNCHANGED graph

\* Graph.depth_first_search(s) on graph g.
depth_first_search_call(g, s) ==
    /\ last = NoCall
    /\ \E r \in depth_first_search(g, s) :
           last' = [NoCall EXCEPT !.op = "depth_first_search", !.g = g,
                       !.u = s, !.err = r.err, !.parents = r.parents,
                       !.levels = r.levels, !.done = r.done]
    /\ UNCHANGED graph

\* Graph.get_distance(u, v) on graph g.
get_distance_call(g, u, v) ==
    /\ last = NoCall
    /\ \E r \in get_distance(g, u, v) :
           last' = [NoCall EXCEPT !.op = "get_distance", !.g = g, !.u = u,
                       !.v = v, !.err = r.err, !.value = r.value,
                       !.done = r.done]
    /\ UNCHANGED graph

\* Graph.get_diameter() on graph g.
get_diameter_call(g) ==
    /\ last = NoCall
    /\ \E r \in get_diameter(g) :
           last' = [NoCall EXCEPT !.op = "get_diameter", !.g = g,
                       !.value = r.value, !.done = r.done]
    /\ UNCHANGED graph

\* Graph.get_connected_components() on graph g.
get_connected_components_call(g) ==
    /\ last = NoCall
    /\ \E r \in get_connected_components(g) :
           last' = [NoCall EXCEPT !.op = "get_connected_components", !.g = g,
                       !.list = r.list, !.done = r.done]
    /\ UNCHANGED graph

\* The caller takes the result of the call (main.py prints it) before it
\* makes the next call: execution is single-threaded and synchronous.
Return ==
    /\ last # NoCall
    /\ last' = NoCall
    /\ UNCHANGED graph

\* The calls that build the graphs, read neighbours and read the degrees.
Next ==
    \/ \E u, v \in VertexArgs : add_edge(u, v)
    \/ \E g \in Kinds, v \in VertexArgs : get_neighbors_call(g, v)
    \/ \E g \in Kinds : get_degree_metrics(g)
    \/ Return

Spec == Init /\ [][Next]_vars

\* The calls that build the graphs and search them.
NextSearch ==
    \/ \E u, v \in VertexArgs : add_edge(u, v)
    \/ \E g \in Kinds, v \in VertexArgs : get_neighbors_call(g, v)
    \/ \E g \in Kinds, s \in VertexArgs : breadth_first_search_call(g, s)
    \/ \E g \in Kinds, s \in VertexArgs : depth_first_search_call(g, s)
    \/ \E g \in Kinds, u, v \in VertexArgs : get_distance_call(g, u, v)
    \/ \E g \in Kinds : get_diameter_call(g)
    \/ \E g \in Kinds : get_connected_components_call(g)
    \/ Return

SpecSearch == Init /\ [][NextSearch]_vars

-----------------------------------------------------------------------------
(* Vocabulary of the properties *)

Vertices == 1 .. num_vertices

Valid(x) == x \in Vertices

Elems(l) == { l[i] : i \in 1 .. Len(l) }

\* The neighbours of v that graph g stores.
Nbrs(g, v) ==
    IF g = "list" THEN adj[v]
    ELSE { j + 1 : j \in { k \in DOMAIN matrix[v - 1] : matrix[v - 1][k] # 0 } }

\* Whatever list get_neighbors(v) has just returned holds the stored
\* neighbours of v, each once.
GetNeighborsReportsNbrs ==
    (last.op = "get_neighbors" /\ last.err = "none") =>
        /\ Elems(last.list) = Nbrs(last.g, last.v)
        /\ Len(last.list) = Cardinality(Nbrs(last.g, last.v))

\* len(get_neighbors(v)) of graph g.
Degree(g, v) == Cardinality(Nbrs(g, v))

DegreeSum(g) == SumSeq([v \in Vertices |-> Degree(g, v)])

SelfLoops(g) == { v \in Vertices : v \in Nbrs(g, v) }

SameEdges == \A v \in Vertices : Nbrs("list", v) = Nbrs("matrix", v)

RECURSIVE Ball(_, _, _)
\* The vertices at most k hops from s in graph g.
Ball(g, s, k) ==
    IF k = 0 THEN {s}
    ELSE LET B == Ball(g, s, k - 1) IN B \cup UNION { Nbrs(g, x) : x \in B }

Reachable(g, s) == Ball(g, s, num_vertices)

\* The least number of hops from s to v, -1 when there is no path.
HopCount(g, s, v) ==
    IF v \notin Reachable(g, s) THEN -1
    ELSE CHOOSE k \in 0 .. num_vertices :
             /\ v \in Ball(g, s, k)
             /\ \A j \in 0 .. k - 1 : v \notin Ball(g, s, j)

SetMax(S) == CHOOSE x \in S : \A y \in S : x >= y

AcceptedAddEdge == last.op = "add_edge" /\ Valid(last.u) /\ Valid(last.v)

RejectedAddEdge == last.op = "add_edge" /\ ~(Valid(last.u) /\ Valid(last.v))

-----------------------------------------------------------------------------
(* Properties *)

\* C1: in both representations v is a neighbour of u exactly when u is a
\* neighbour of v, in every state add_edge calls lead to; and right after an
\* accepted add_edge(u, v) each endpoint is a neighbour of the other.
C1_AdjacencySymmetry ==
    \A g \in Kinds :
        /\ GetNeighborsReportsNbrs
        /\ \A u, v \in Vertices : (v \in Nbrs(g, u)) <=> (u \in Nbrs(g, v))
        /\ AcceptedAddEdge =>
              /\ last.v \in Nbrs(g, last.u)
              /\ last.u \in Nbrs(g, last.v)

\* An accepted add_edge(u, v), u # v, has just returned on graphs that hold
\* a self-loop and three edges or more.
C1_Witness ==
    /\ AcceptedAddEdge
    /\ last.u # last.v
    /\ SelfLoops("list") # {}
    /\ list_edge_count >= 3
    /\ matrix_edge_count >= 3

\* C2: edge_count of both representations is the number of distinct unordered
\* pairs inserted; the first insertion of a pair adds one, and inserting a
\* pair again, in either orientation, changes no count and no neighbour set.
C2_EdgeCountDistinctPairs ==
    [][ LET pair == {last'.u, last'.v}
            isAdd == last.op = "none" /\ last'.op = "add_edge"
                     /\ last'.u \in 1 .. num_vertices
                     /\ last'.v \in 1 .. num_vertices
        IN  /\ list_edge_count = Cardinality(inserted)
            /\ matrix_edge_count = Cardinality(inserted)
            /\ list_edge_count' = Cardinality(inserted')
            /\ matrix_edge_count' = Cardinality(inserted')
            /\ (isAdd /\ pair \notin inserted) =>
                  /\ list_edge_count' = list_edge_count + 1
                  /\ matrix_edge_count' = matrix_edge_count + 1
            /\ (isAdd /\ pair \in inserted) =>
                  /\ list_edge_count' = list_edge_count
                  /\ matrix_edge_count' = matrix_edge_count
                  /\ adj' = adj
                  /\ matrix' = matrix
      ]_vars

\* add_edge(u, v) has just returned for a pair that was inserted before as
\* (v, u): the count is below the number of accepted calls.
C2_Witness ==
    /\ AcceptedAddEdge
    /\ last.u > last.v
    /\ {last.u, last.v} \in inserted
    /\ last.v \in adj[last.u]
    /\ Cardinality(inserted) = 2
    /\ list_edge_count = 2
    /\ \E w \in Vertices : {w} \in inserted

\* C3 as stated: the degrees sum to twice edge_count.
C3_DegreeSumTwiceEdges ==
    \A g \in Kinds : DegreeSum(g) = 2 * edge_count(g)

\* C3 amended: the degrees sum to twice edge_count less the number of
\* self-loops (a self-loop u-u puts one entry, u, in u's neighbours and counts
\* as one edge); the degrees get_degree_metrics works from sum to the same.
C3_DegreeSumLessSelfLoops ==
    \A g \in Kinds :
        /\ GetNeighborsReportsNbrs
        /\ DegreeSum(g) = 2 * edge_count(g) - Cardinality(SelfLoops(g))
        /\ (last.op = "get_degree_metrics" /\ last.g = g) =>
              /\ SumSeq(last.list) = 2 * edge_count(g) - Cardinality(SelfLoops(g))
              /\ last.value.avg_degree = <<SumSeq(last.list), num_vertices>>

\* get_degree_metrics has returned on a graph with a self-loop and two other
\* edges.
C3_Witness ==
    /\ last.op = "get_degree_metrics"
    /\ Cardinality(SelfLoops(last.g)) = 1
    /\ edge_count(last.g) = 3

\* C4: breadth_first_search(s) returns; level[s] = 0, level[v] is the least
\* hop count from s for a reachable v and -1 for an unreachable one, whatever
\* order the neighbours come in; so, for the same edges, every run on the list
\* graph and every run on the matrix graph give the same levels.
C4_BfsLevelsShortest ==
    (last.op = "breadth_first_search" /\ last.err = "none") =>
        /\ last.done
        /\ last.levels[last.u] = 0
        /\ \A v \in Vertices : last.levels[v] = HopCount(last.g, last.u, v)
        /\ SameEdges =>
              \A rl \in breadth_first_search("list", last.u),
                 rm \in breadth_first_search("matrix", last.u) :
                  rl.done /\ rm.done /\ rl.levels = rm.levels

\* A search of the list graph has returned where one vertex is two hops away
\* and one vertex is unreachable, and some vertex has two neighbours or more
\* (their order is open).
C4_Witness ==
    /\ last.op = "breadth_first_search"
    /\ last.err = "none"
    /\ last.g = "list"
    /\ SameEdges
    /\ \E v, w \in Vertices :
          /\ last.levels[v] = 2
          /\ last.levels[w] = -1
    /\ \E x \in Vertices : Cardinality(adj[x]) >= 2

\* C5: get_connected_components returns a partition of 1..N into the
\* connected components, each with its size, the sizes summing to N, ordered
\* by non-increasing size, equal sizes by ascending smallest vertex.
C5_ComponentsPartition ==
    (last.op = "get_connected_components") =>
        LET cs == last.list IN
        /\ last.done
        /\ \A v \in Vertices :
              Cardinality({ i \in 1 .. Len(cs) : v \in Elems(cs[i].vertices) }) = 1
        /\ \A i \in 1 .. Len(cs) :
              /\ cs[i].vertices # << >>
              /\ cs[i].vertices = sorted(cs[i].vertices)
              /\ Elems(cs[i].vertices) = Reachable(last.g, cs[i].vertices[1])
              /\ cs[i].size = Cardinality(Elems(cs[i].vertices))
              /\ cs[i].size = Len(cs[i].vertices)
        /\ SumSeq([i \in 1 .. Len(cs) |-> cs[i].size]) = num_vertices
        /\ \A i, j \in 1 .. Len(cs) :
              i < j =>
                 /\ cs[i].size >= cs[j].size
                 /\ cs[i].size = cs[j].size =>
                       cs[i].vertices[1] < cs[j].vertices[1]

\* The result holds a larger component found after a smaller one, and two
\* components of the same size.
C5_Witness ==
    /\ last.op = "get_connected_components"
    /\ last.g = "list"
    /\ Len(last.list) = 3
    /\ last.list[1].size = 2
    /\ last.list[1].vertices[1] > last.list[2].vertices[1]
    /\ last.list[2].size = last.list[3].size

\* C6: get_diameter returns the largest get_distance(u, v) over the pairs
\* with v reachable from u; it is never -1, and it is 0 for a single vertex
\* without edges.
C6_DiameterMaxDistance ==
    (last.op = "get_diameter") =>
        LET D == { r.value : r \in UNION { get_distance(last.g, u, v) :
                                           u \in Vertices, v \in Vertices } }
        IN  /\ last.done
            /\ last.value = SetMax(D \ {-1})
            /\ last.value # -1
            /\ (num_vertices = 1 /\ edge_count(last.g) = 0) => last.value = 0

\* The diameter of a disconnected graph with a path of two hops was returned.
C6_Witness ==
    /\ last.op = "get_diameter"
    /\ last.value = 2
    /\ \E u, v \in Vertices : HopCount(last.g, u, v) = -1

\* C7: a vertex argument outside 1..N makes add_edge, get_neighbors,
\* breadth_first_search, depth_first_search and get_distance (either argument)
\* raise ValueError.
C7_OutOfRangeValueError ==
    /\ RejectedAddEdge =>
          last.err = "ValueError" /\ last.err_matrix = "ValueError"
    /\ (last.op = "get_neighbors" /\ ~Valid(last.v)) => last.err = "ValueError"
    /\ (last.op \in {"breadth_first_search", "depth_first_search"}
        /\ ~Valid(last.u)) => last.err = "ValueError"
    /\ (last.op = "get_distance" /\ ~(Valid(last.u) /\ Valid(last.v))) =>
          last.err = "ValueError"

\* C8: an add_edge with an endpoint outside 1..N changes no edge count, no
\* neighbour set and no degree cache.
C8_RejectedAddEdgeUnchanged ==
    [][ (last'.op = "add_edge"
         /\ ~(last'.u \in 1 .. num_vertices /\ last'.v \in 1 .. num_vertices))
        => /\ adj' = adj
           /\ list_edge_count' = list_edge_count
           /\ matrix' = matrix
           /\ matrix_edge_count' = matrix_edge_count
           /\ list_cache' = list_cache
           /\ matrix_cache' = matrix_cache
      ]_vars

\* add_edge with a valid first and an invalid second endpoint was rejected on
\* graphs that hold edges and computed degree caches.
C8_Witness ==
    /\ RejectedAddEdge
    /\ Valid(last.u)
    /\ last.err = "ValueError"
    /\ list_edge_count >= 2
    /\ list_cache # NoCache
    /\ matrix_cache # NoCache

\* C9: depth_first_search(s) returns, and its parent and depth maps do not
\* depend on the order of the neighbours: every run on the list graph and
\* every run on the matrix graph give the maps returned; the parent is None
\* for s and for unreached vertices, whose depth is -1.
C9_DfsOrderIndependent ==
    (last.op = "depth_first_search" /\ last.err = "none") =>
        /\ last.done
        /\ SameEdges =>
              \A r \in depth_first_search("list", last.u)
                       \cup depth_first_search("matrix", last.u) :
                  r.done /\ r.parents = last.parents /\ r.levels = last.levels
        /\ last.parents[last.u] = None
        /\ last.levels[last.u] = 0
        /\ \A v \in Vertices :
              IF v \in Reachable(last.g, last.u)
              THEN last.levels[v] >= 0
              ELSE last.parents[v] = None /\ last.levels[v] = -1

\* A search of the list graph has returned where the start has two
\* neighbours a < b that share a further neighbour c: the parent of c is the
\* one popped first, a, so the order of the pushes decides it.
C9_Witness ==
    /\ last.op = "depth_first_search"
    /\ last.err = "none"
    /\ last.g = "list"
    /\ SameEdges
    /\ \E a, b, c \in Vertices :
          /\ a < b
          /\ {a, b} \subseteq adj[last.u]
          /\ c \in adj[a] /\ c \in adj[b]
          /\ c \notin {a, b, last.u}
          /\ last.parents[c] = a
          /\ last.levels[c] = 2

\* C10: a degree cache is empty or holds len(get_neighbors(v)) of the current
\* graph for every v; after an accepted add_edge both caches are empty; and
\* get_degree_metrics reports the degrees of the current graph.
C10_DegreeCacheCoherent ==
    \A g \in Kinds :
        /\ GetNeighborsReportsNbrs
        /\ \/ cache(g) = NoCache
           \/ cache(g) = [v \in Vertices |-> Degree(g, v)]
        /\ AcceptedAddEdge => cache(g) = NoCache
        /\ (last.op = "get_degree_metrics" /\ last.g = g) =>
              /\ last.list = [v \in Vertices |-> Degree(g, v)]
              /\ cache(g) = last.list
              /\ last.value = degree_metrics([v \in Vertices |-> Degree(g, v)])

\* get_degree_metrics has recomputed the degrees of a graph with edges while
\* the other graph's cache is filled too.
C10_Witness ==
    /\ last.op = "get_degree_metrics"
    /\ last.g = "matrix"
    /\ list_cache # NoCache
    /\ matrix_cache # NoCache
    /\ matrix_edge_count >= 2
    /\ last.value.max_degree >= 2

====
